---- MODULE Spec2Model ----
(***************************************************************************)
(* Model of the Cloud Function run_bq_data_destruction (src/main.py).      *)
(*                                                                         *)
(* The function validates a JSON request, resolves the protocol to a       *)
(* dataset/table in supported_protocols and calls delete_row, which runs   *)
(* an existence query and then a delete query against the data store.      *)
(* The hosting runtime may run several requests at once; each query is one *)
(* atomic step of the store.                                               *)
(*                                                                         *)
(* Python strings that the code inspects character by character (the       *)
(* Connect_IDs) are sequences of one-character strings; strings the code   *)
(* only compares or concatenates (protocol names, messages) are TLA+       *)
(* strings.  A JSON value is a record tagged with its type in field t.     *)
(***************************************************************************)
EXTENDS Integers, Sequences, FiniteSets, TLC

\* ------------------------------------------------------------------------
\* Bounds of the model
\* ------------------------------------------------------------------------

\* number of requests the runtime serves in one behaviour
MaxRequests == 2

\* longest connect_ids list a request carries
MaxIds == 2

\* ------------------------------------------------------------------------
\* Strings
\* ------------------------------------------------------------------------

\* characters removed by str.strip() and by SQL TRIM (whitespace)
Whitespace == {" ", "\t"}

Digits == <<"0", "1", "2", "3", "4", "5", "6", "7", "8", "9">>

RECURSIVE LStrip(_)
\* drop the leading whitespace of s
LStrip(s) ==
    IF s # <<>> /\ Head(s) \in Whitespace THEN LStrip(Tail(s)) ELSE s

RECURSIVE RStrip(_)
\* drop the trailing whitespace of s
RStrip(s) ==
    IF s # <<>> /\ s[Len(s)] \in Whitespace
    THEN RStrip(SubSeq(s, 1, Len(s) - 1))
    ELSE s

\* str.lstrip() in the place of str.strip(): trailing whitespace stays
Strip_LeftOnly(s) == LStrip(s)

\* Python str.strip() with no argument
Strip(s) == RStrip(LStrip(s))

\* BigQuery TRIM(Connect_ID) with no second argument
Trim(s) == RStrip(LStrip(s))

RECURSIVE Decimal(_)
\* decimal digits of the natural number n, as Python's str(int) prints them
Decimal(n) ==
    IF n < 10 THEN <<Digits[n + 1]>>
    ELSE Decimal(n \div 10) \o <<Digits[(n % 10) + 1]>>

\* Python str(x) of one element of a parsed JSON list
PyStr(e) ==
    CASE e.t = "str" -> e.v
      [] e.t = "num" -> Decimal(e.v)
      [] e.t = "null" -> <<"N", "o", "n", "e">>

\* [str(id).strip() for id in connect_ids]
Normalize(list) == [i \in 1..Len(list) |-> Strip(PyStr(list[i]))]

\* set(connect_ids)
SetOf(list) == {list[i] : i \in 1..Len(list)}

\* ------------------------------------------------------------------------
\* Protocol registry
\* ------------------------------------------------------------------------

\* supported_protocols as written in the source: a dict, kept in insertion
\* order as a sequence of entries
supported_protocols ==
    << [name |-> "roi_physical_activity",
        dataset |-> "ForTestingOnly",
        table |-> "roi_physical_activity",
        function |-> "delete_row"] >>

\* supported_protocols with one more entry, whose operation kind has no
\* implementation in run_bq_data_destruction: the configuration that makes
\* the "not implemented" branch of the dispatch reachable
extended_protocols ==
    supported_protocols \o
    << [name |-> "roi_mask",
        dataset |-> "ForTestingOnly",
        table |-> "roi_masked",
        function |-> "mask_fields"] >>

\* the configurations a deployment is started with
Registries == {supported_protocols, extended_protocols}

\* protocol in supported_protocols
InRegistry(reg, protocol) == \E i \in 1..Len(reg) : reg[i].name = protocol

\* the value dict.get() returns when there is no such key
None == [t |-> "null"]

\* supported_protocols.get(protocol)
RegistryGet(reg, protocol) ==
    IF InRegistry(reg, protocol)
    THEN reg[CHOOSE i \in 1..Len(reg) : reg[i].name = protocol]
    ELSE None

RECURSIVE Quoted(_, _)
\* the items of list(supported_protocols.keys()) from index i on, as an
\* f-string prints them
Quoted(reg, i) ==
    IF i > Len(reg) THEN ""
    ELSE "'" \o reg[i].name \o "'" \o
         (IF i < Len(reg) THEN ", " ELSE "") \o Quoted(reg, i + 1)

\* f"{list(supported_protocols.keys())}"
KeysRepr(reg) == "[" \o Quoted(reg, 1) \o "]"

\* client.project
project == "project"

\* the table a dataset/table pair names
TableOf(dataset, table) == <<dataset, table>>

\* ------------------------------------------------------------------------
\* Responses
\* ------------------------------------------------------------------------

\* json.dumps of a body that has the single key "error" (the text no body
\* of the model needs escaping in)
JsonDumps(body) == "{\"error\": \"" \o body.error \o "\"}"

\* json_response called without its status, which defaults to 200
json_response_DefaultStatus(message, status) == [body |-> message, status |-> 200]

\* json_response(message, status): the Python 2-tuple
\* (json.dumps(message), status).  The record keeps the body as the JSON
\* value the text encodes.
json_response(message, status) == [body |-> message, status |-> status]

\* isinstance(validation_result, tuple): validate_request returns
\* (protocol, connect_ids) on success and a json_response, itself a
\* 2-tuple, on failure
IsTuple(v) == "connect_ids" \in DOMAIN v \/ "status" \in DOMAIN v

\* first item of the tuple v
First(v) == IF "protocol" \in DOMAIN v THEN v.protocol ELSE JsonDumps(v.body)

\* second item of the tuple v
Second(v) == IF "connect_ids" \in DOMAIN v THEN v.connect_ids ELSE v.status

\* ------------------------------------------------------------------------
\* Request bodies
\* ------------------------------------------------------------------------

\* a body request.get_json(silent=True) cannot parse
Unparseable == [t |-> "unparseable"]

\* request.get_json(silent=True)
GetJson(request) == IF request.t = "unparseable" THEN None ELSE request

\* request_json.get(key) on a parsed JSON object
ObjectGet(json, key) == IF key = "protocol" THEN json.protocol ELSE json.connect_ids

\* validate_request(request): a Python value, or the exception it raises
validate_request(request, reg) ==
    LET request_json == GetJson(request) IN
    IF request_json = None
    THEN [raised |-> FALSE,
          value |-> json_response([error |-> "Invalid JSON format"], 400)]
    ELSE IF request_json.t # "object"
    THEN \* request_json.get: lists, strings and numbers have no get
         [raised |-> TRUE,
          exception |-> "'" \o request_json.t \o "' object has no attribute 'get'"]
    ELSE
    LET protocol == ObjectGet(request_json, "protocol")
        connect_ids == ObjectGet(request_json, "connect_ids")
    IN  IF protocol.t # "str"
        THEN [raised |-> FALSE,
              value |-> json_response(
                  [error |-> "Missing or invalid parameter: protocol (str)"], 400)]
        ELSE IF ~InRegistry(reg, protocol.v)
        THEN [raised |-> FALSE,
              value |-> json_response(
                  [error |-> "'" \o protocol.v \o
                             "' is not a supported protocol. Allowed: " \o
                             KeysRepr(reg)], 400)]
        ELSE IF connect_ids.t # "list"
        THEN [raised |-> FALSE,
              value |-> json_response(
                  [error |-> "connect_ids must be a list of strings"], 400)]
        ELSE [raised |-> FALSE,
              value |-> [protocol |-> protocol.v,
                         connect_ids |-> Normalize(connect_ids.v)]]

\* ------------------------------------------------------------------------
\* Data store
\* ------------------------------------------------------------------------

\* the rows the tables of the model draw from: an identifier of the row and
\* the stored Connect_ID, with or without surrounding whitespace
RowUniverse ==
    { [rid |-> 1, cid |-> <<"1">>],
      [rid |-> 2, cid |-> <<" ", "1">>],
      [rid |-> 3, cid |-> <<"2", "\t">>] }

\* the table the source's registry entry names
TargetTable == TableOf("ForTestingOnly", "roi_physical_activity")

\* the table only the extended registry names
MaskTable == TableOf("ForTestingOnly", "roi_masked")

Tables == {TargetTable, MaskTable}

\* SELECT TRIM(Connect_ID) AS Connect_ID FROM t
\* WHERE TRIM(Connect_ID) IN UNNEST(@connect_ids): the rows returned
SelectRows(rows, param) ==
    {row \in rows : \E i \in 1..Len(param) : Trim(row.cid) = param[i]}

\* {row["Connect_ID"] for row in check_job.result()}
ExistingIds(rows, param) == {Trim(row.cid) : row \in SelectRows(rows, param)}

\* a DELETE whose WHERE compares Connect_ID without TRIM
DeletedRows_ExactMatch(rows, param) == {row \in rows : row.cid \in param}

\* a DELETE without its WHERE clause
DeletedRows_Unscoped(rows, param) == rows

\* DELETE FROM t WHERE TRIM(Connect_ID) IN UNNEST(@connect_ids): the rows
\* the statement removes, param being the bound array as a set
DeletedRows(rows, param) == {row \in rows : Trim(row.cid) \in param}

\* not_found_ids = list(set(connect_ids) - existing_ids)
NotFoundIds(connect_ids, existing_ids) == SetOf(connect_ids) \ existing_ids

\* a delete_row that never takes the no-match return
NothingExists_Never(existing_ids) == FALSE

\* if not existing_ids
NothingExists(existing_ids) == existing_ids = {}

\* a delete statement bound to the whole input list
DeleteParam_FullInput(connect_ids, existing_ids) == SetOf(connect_ids)

\* the array delete_row binds to @connect_ids of the delete statement:
\* list(existing_ids)
DeleteParam(connect_ids, existing_ids) == existing_ids

\* ------------------------------------------------------------------------
\* The handler up to its first query
\* ------------------------------------------------------------------------

\* run_bq_data_destruction(request) up to the call of delete_row: either
\* the response it returns, or the arguments it calls delete_row with
Dispatch(request, reg) ==
    LET result == validate_request(request, reg) IN
    IF result.raised
    THEN \* except Exception as e
         [call |-> "return",
          response |-> json_response([error |-> result.exception], 500)]
    ELSE
    LET validation_result == result.value IN
    IF ~IsTuple(validation_result)
    THEN [call |-> "return", response |-> validation_result]
    ELSE
    LET protocol == First(validation_result)
        connect_ids == Second(validation_result)
        protocol_config == RegistryGet(reg, protocol)
    IN  IF protocol_config = None
        THEN [call |-> "return",
              response |-> json_response(
                  [error |-> "Unsupported protocol: " \o protocol], 400)]
        ELSE IF protocol_config.function = "delete_row"
        THEN [call |-> "delete_row",
              dataset |-> protocol_config.dataset,
              table |-> protocol_config.table,
              connect_ids |-> connect_ids]
        ELSE [call |-> "return",
              response |-> json_response(
                  [error |-> "Function '" \o protocol_config.function \o
                             "' not implemented"], 500)]

\* delete_row, first line: connect_ids = [str(id).strip() for id in connect_ids]
DeleteRowIds(connect_ids) ==
    Normalize([i \in 1..Len(connect_ids) |-> [t |-> "str", v |-> connect_ids[i]]])

\* delete_row: the response when the existence query finds nothing
NoMatchResponse(not_found_ids) ==
    json_response([message |-> "No matching Connect_IDs found",
                   not_found |-> not_found_ids], 200)

\* delete_row: the response after the delete query
DeletedResponse(dataset, table, existing_ids, not_found_ids) ==
    json_response(
        [message |-> "Deleted " \o ToString(Cardinality(existing_ids)) \o
                     " records from " \o project \o "." \o dataset \o "." \o table,
         deleted_ids |-> existing_ids,
         not_found |-> not_found_ids], 200)

\* delete_row: except Exception as e
QueryFailedResponse(e) ==
    json_response([error |-> "Query execution failed: " \o e], 500)

\* what the store's client raises when a query fails
StoreFault == "store fault"

\* ------------------------------------------------------------------------
\* Requests of the model
\* ------------------------------------------------------------------------

\* elements of a connect_ids list: a string, the same string with
\* surrounding whitespace, and a number
RawElems ==
    { [t |-> "str", v |-> <<"1">>],
      [t |-> "str", v |-> <<" ", "1", "\t">>],
      [t |-> "num", v |-> 2] }

\* connect_ids lists of at most MaxIds elements
IdLists == UNION {[1..n -> RawElems] : n \in 0..MaxIds}

JsonStr(s) == [t |-> "str", v |-> s]

JsonList(l) == [t |-> "list", v |-> l]

JsonObject(protocol, connect_ids) ==
    [t |-> "object", protocol |-> protocol, connect_ids |-> connect_ids]

\* the request bodies the model sends
Requests ==
    {Unparseable, JsonList(<<>>)}
    \cup {JsonObject(p, c) :
            p \in {None, JsonStr("bogus"), JsonStr("roi_mask")},
            c \in {JsonStr("1"), JsonList(<<[t |-> "str", v |-> <<"1">>]>>)}}
    \cup {JsonObject(JsonStr("roi_physical_activity"), c) :
            c \in {None, JsonStr("1")} \cup {JsonList(l) : l \in IdLists}}

\* ------------------------------------------------------------------------
\* State
\* ------------------------------------------------------------------------

VARIABLES
    registry,   \* supported_protocols of this deployment
    store,      \* the rows of each table of the data store
    pc,         \* where each request stands in the handler
    request,    \* the body each request came with
    frame,      \* the locals of delete_row: dataset, table, connect_ids,
                \* existing_ids, not_found_ids
    response,   \* the (body, status) each request was answered with
    issued,     \* the statements each request sent to the store, in order,
                \* with the array bound to @connect_ids
    seen,       \* the rows of the table when the request's existence query ran
    removed,    \* the rows the request's own delete statement removed
    post        \* the rows of the table after the request's last statement

vars == <<registry, store, pc, request, frame, response, issued, seen, removed, post>>

RequestIds == 1..MaxRequests

NoRequest == [t |-> "none"]

NoFrame ==
    [dataset |-> "", table |-> "", connect_ids |-> <<>>,
     existing_ids |-> {}, not_found_ids |-> {}]

NoResponse == [body |-> [error |-> ""], status |-> 0]

Init ==
    /\ registry \in Registries
    /\ store \in [Tables -> SUBSET RowUniverse]
    /\ store[MaskTable] = RowUniverse
    /\ pc = [r \in RequestIds |-> "idle"]
    /\ request = [r \in RequestIds |-> NoRequest]
    /\ frame = [r \in RequestIds |-> NoFrame]
    /\ response = [r \in RequestIds |-> NoResponse]
    /\ issued = [r \in RequestIds |-> <<>>]
    /\ seen = [r \in RequestIds |-> {}]
    /\ removed = [r \in RequestIds |-> {}]
    /\ post = [r \in RequestIds |-> {}]

\* ------------------------------------------------------------------------
\* Steps of a request
\* ------------------------------------------------------------------------

\* The runtime hands request r with body b to run_bq_data_destruction, which
\* runs up to its first query: it answers at once, or it enters delete_row.
Receive(r, b) ==
    /\ pc[r] = "idle"
    /\ request' = [request EXCEPT ![r] = b]
    /\ LET d == Dispatch(b, registry) IN
       IF d.call = "return"
       THEN /\ pc' = [pc EXCEPT ![r] = "done"]
            /\ response' = [response EXCEPT ![r] = d.response]
            /\ frame' = frame
       ELSE /\ pc' = [pc EXCEPT ![r] = "check"]
            /\ frame' = [frame EXCEPT ![r] =
                   [NoFrame EXCEPT !.dataset = d.dataset,
                                   !.table = d.table,
                                   !.connect_ids = DeleteRowIds(d.connect_ids)]]
            /\ response' = response
    /\ UNCHANGED <<registry, store, issued, seen, removed, post>>

\* delete_row: the existence query runs and its rows are read; with no
\* existing id the request is answered, otherwise the delete query is next.
ExistenceQuery(r) ==
    /\ pc[r] = "check"
    /\ LET f == frame[r]
           rows == store[TableOf(f.dataset, f.table)]
           existing_ids == ExistingIds(rows, f.connect_ids)
           not_found_ids == NotFoundIds(f.connect_ids, existing_ids)
       IN  /\ issued' = [issued EXCEPT ![r] =
                  Append(@, [kind |-> "select",
                             table |-> TableOf(f.dataset, f.table),
                             param |-> f.connect_ids,
                             raised |-> FALSE])]
           /\ seen' = [seen EXCEPT ![r] = rows]
           /\ post' = [post EXCEPT ![r] = rows]
           /\ frame' = [frame EXCEPT ![r].existing_ids = existing_ids,
                                     ![r].not_found_ids = not_found_ids]
           /\ IF NothingExists(existing_ids)
              THEN /\ pc' = [pc EXCEPT ![r] = "done"]
                   /\ response' = [response EXCEPT ![r] =
                          NoMatchResponse(not_found_ids)]
              ELSE /\ pc' = [pc EXCEPT ![r] = "delete"]
                   /\ response' = response
    /\ UNCHANGED <<registry, store, request, removed>>

\* a delete_row that sends the existence query again after a fault
ExistenceQueryFault_Retry(r) ==
    /\ pc[r] = "check"
    /\ Len(issued[r]) < 2
    /\ LET f == frame[r]
           rows == store[TableOf(f.dataset, f.table)]
       IN  /\ issued' = [issued EXCEPT ![r] =
                  Append(@, [kind |-> "select",
                             table |-> TableOf(f.dataset, f.table),
                             param |-> f.connect_ids,
                             raised |-> TRUE])]
           /\ seen' = [seen EXCEPT ![r] = rows]
           /\ post' = [post EXCEPT ![r] = rows]
    /\ UNCHANGED <<registry, store, pc, request, frame, response, removed>>

\* delete_row: the store raises on the existence query.
ExistenceQueryFault(r) ==
    /\ pc[r] = "check"
    /\ LET f == frame[r]
           rows == store[TableOf(f.dataset, f.table)]
       IN  /\ issued' = [issued EXCEPT ![r] =
                  Append(@, [kind |-> "select",
                             table |-> TableOf(f.dataset, f.table),
                             param |-> f.connect_ids,
                             raised |-> TRUE])]
           /\ seen' = [seen EXCEPT ![r] = rows]
           /\ post' = [post EXCEPT ![r] = rows]
    /\ pc' = [pc EXCEPT ![r] = "done"]
    /\ response' = [response EXCEPT ![r] = QueryFailedResponse(StoreFault)]
    /\ UNCHANGED <<registry, store, request, frame, removed>>

\* delete_row: the delete query runs to completion and the request is
\* answered.
DeleteQuery(r) ==
    /\ pc[r] = "delete"
    /\ LET f == frame[r]
           t == TableOf(f.dataset, f.table)
           param == DeleteParam(f.connect_ids, f.existing_ids)
           gone == DeletedRows(store[t], param)
       IN  /\ issued' = [issued EXCEPT ![r] =
                  Append(@, [kind |-> "delete", table |-> t,
                             param |-> param, raised |-> FALSE])]
           /\ store' = [store EXCEPT ![t] = @ \ gone]
           /\ removed' = [removed EXCEPT ![r] = gone]
           /\ post' = [post EXCEPT ![r] = store[t] \ gone]
           /\ response' = [response EXCEPT ![r] =
                  DeletedResponse(f.dataset, f.table, f.existing_ids,
                                  f.not_found_ids)]
    /\ pc' = [pc EXCEPT ![r] = "done"]
    /\ UNCHANGED <<registry, request, frame, seen>>

\* delete_row: the store's client raises on the delete query.  The
\* statement is atomic in the store; the client cannot tell whether it was
\* applied before the fault.
DeleteQueryFault(r, applied) ==
    /\ pc[r] = "delete"
    /\ LET f == frame[r]
           t == TableOf(f.dataset, f.table)
           param == DeleteParam(f.connect_ids, f.existing_ids)
           gone == IF applied THEN DeletedRows(store[t], param) ELSE {}
       IN  /\ issued' = [issued EXCEPT ![r] =
                  Append(@, [kind |-> "delete", table |-> t,
                             param |-> param, raised |-> TRUE])]
           /\ store' = [store EXCEPT ![t] = @ \ gone]
           /\ removed' = [removed EXCEPT ![r] = gone]
           /\ post' = [post EXCEPT ![r] = store[t] \ gone]
    /\ response' = [response EXCEPT ![r] = QueryFailedResponse(StoreFault)]
    /\ pc' = [pc EXCEPT ![r] = "done"]
    /\ UNCHANGED <<registry, request, frame, seen>>

\* Another writer of the table loads back the rows it held when request 1
\* looked at it, between two invocations.
Restore ==
    /\ pc[1] = "done"
    /\ pc[2] = "idle"
    /\ issued[1] # <<>>
    /\ store[TargetTable] # seen[1]
    /\ store' = [store EXCEPT ![TargetTable] = seen[1]]
    /\ UNCHANGED <<registry, pc, request, frame, response, issued, seen, removed, post>>

\* ------------------------------------------------------------------------
\* Specifications
\* ------------------------------------------------------------------------

\* the bodies of the requests that run concurrently
ConcurrentRequests ==
    { Unparseable,
      JsonList(<<>>),
      JsonObject(JsonStr("bogus"), JsonStr("1")),
      JsonObject(JsonStr("roi_mask"), JsonList(<<[t |-> "str", v |-> <<"1">>]>>)),
      JsonObject(JsonStr("roi_physical_activity"), JsonList(<<>>)),
      JsonObject(JsonStr("roi_physical_activity"),
                 JsonList(<<[t |-> "str", v |-> <<"1">>]>>)),
      JsonObject(JsonStr("roi_physical_activity"),
                 JsonList(<<[t |-> "str", v |-> <<" ", "1", "\t">>],
                            [t |-> "num", v |-> 2]>>)) }

\* Concurrent requests: the runtime runs up to MaxRequests requests at once
\* and the store interleaves their queries.
Next ==
    \E r \in RequestIds :
        \/ \E b \in ConcurrentRequests : Receive(r, b)
        \/ ExistenceQuery(r)
        \/ ExistenceQueryFault(r)
        \/ DeleteQuery(r)
        \/ \E applied \in BOOLEAN : DeleteQueryFault(r, applied)

Spec == Init /\ [][Next]_vars

\* request r starts when no other request is in flight; request 2 follows
\* a request 1 that ran delete_row and met no store fault
InSuccession(r) ==
    /\ r \in {1, 2}
    /\ \A q \in RequestIds \ {r} : pc[q] \in {"idle", "done"}
    /\ r = 2 =>
          /\ pc[1] = "done"
          /\ issued[1] # <<>>
          /\ \A i \in 1..Len(issued[1]) : ~issued[1][i].raised

\* The runtime hands over request r once the request before it is answered.
ReceiveInSuccession(r, b) == InSuccession(r) /\ Receive(r, b)

\* Two invocations in succession, with any body of Requests each.
NextSeq ==
    \/ \E r \in RequestIds :
        \/ \E b \in Requests : ReceiveInSuccession(r, b)
        \/ ExistenceQuery(r)
        \/ ExistenceQueryFault(r)
        \/ DeleteQuery(r)
        \/ \E applied \in BOOLEAN : DeleteQueryFault(r, applied)
    \/ Restore

\* the deployment with the registry of the source
InitSeq == Init /\ registry = supported_protocols

SpecSeq == InitSeq /\ [][NextSeq]_vars

\* ------------------------------------------------------------------------
\* Vocabulary of the properties
\* ------------------------------------------------------------------------

Done(r) == pc[r] = "done"

Status(r) == response[r].status

Body(r) == response[r].body

\* the request has a protocol of the registry and a list as connect_ids
ValidRequest(r) ==
    /\ request[r].t = "object"
    /\ request[r].protocol.t = "str"
    /\ InRegistry(registry, request[r].protocol.v)
    /\ request[r].connect_ids.t = "list"

\* the store raised on one of the request's statements
StoreFaulted(r) == \E i \in 1..Len(issued[r]) : issued[r][i].raised

\* the statements of one kind the request sent
Statements(r, kind) == {i \in 1..Len(issued[r]) : issued[r][i].kind = kind}

\* the decimal numeral of a number below 100
Numeral(n) ==
    IF n < 10 THEN <<Digits[n + 1]>>
    ELSE <<Digits[(n \div 10) + 1], Digits[(n % 10) + 1]>>

\* the string form of an element of connect_ids
StringForm(e) ==
    CASE e.t = "str" -> e.v
      [] e.t = "num" -> Numeral(e.v)
      [] e.t = "null" -> <<"N", "o", "n", "e">>

\* s without its surrounding whitespace: the part of s from its first to
\* its last character that is no whitespace
Trimmed(s) ==
    LET solid == {i \in 1..Len(s) : s[i] \notin Whitespace}
    IN  IF solid = {} THEN <<>>
        ELSE SubSeq(s,
                    CHOOSE i \in solid : \A j \in solid : i <= j,
                    CHOOSE i \in solid : \A j \in solid : j <= i)

\* the identifier an element of connect_ids stands for
IdOf(e) == Trimmed(StringForm(e))

\* the identifiers the request asks to delete
Wanted(r) ==
    LET list == request[r].connect_ids.v
    IN  {IdOf(list[i]) : i \in 1..Len(list)}

\* the identifiers the rows hold
IdsIn(rows) == {Trimmed(row.cid) : row \in rows}

\* the wanted identifiers the table held when the request looked at it
PresentIds(r) == Wanted(r) \cap IdsIn(seen[r])

AbsentIds(r) == Wanted(r) \ IdsIn(seen[r])

\* ------------------------------------------------------------------------
\* Properties
\* ------------------------------------------------------------------------

\* the case of C1: a valid request, no store fault, some wanted identifiers
\* present and some absent
MixedCase(r) ==
    /\ Done(r)
    /\ ValidRequest(r)
    /\ ~StoreFaulted(r)
    /\ PresentIds(r) # {}
    /\ AbsentIds(r) # {}

\* C1: a valid request whose identifiers are partly present and partly
\* absent, with no store fault, is answered 200; deleted_ids is the set of
\* the present ones, not_found the set of the absent ones, and the array
\* bound to the delete statement is deleted_ids.
C1_MixedDeletesExactlyPresent ==
    \A r \in RequestIds :
        MixedCase(r) =>
            /\ Status(r) = 200
            /\ "deleted_ids" \in DOMAIN Body(r)
            /\ Body(r).deleted_ids = PresentIds(r)
            /\ Body(r).not_found = AbsentIds(r)
            /\ Statements(r, "delete") = {2}
            /\ issued[r][2].param = Body(r).deleted_ids

\* a mixed request whose list holds an element that is not in normal form
C1_Witness ==
    \E r \in RequestIds :
        /\ MixedCase(r)
        /\ Status(r) = 200
        /\ \E i \in 1..Len(request[r].connect_ids.v) :
               request[r].connect_ids.v[i].t = "num"

\* the answer C2 describes for a request none of whose identifiers exists
NoMatchAnswer(r) ==
    /\ Status(r) = 200
    /\ DOMAIN Body(r) = {"message", "not_found"}
    /\ Body(r).message = "No matching Connect_IDs found"
    /\ Body(r).not_found = Wanted(r)
    /\ Statements(r, "delete") = {}

\* C2 as stated: every valid request with only absent identifiers is
\* answered 200 with the no-match message, reports no deleted id, has
\* not_found equal to the set of its identifiers and issues no delete.
C2_AbsentAlwaysNoMatch ==
    \A r \in RequestIds :
        (Done(r) /\ ValidRequest(r) /\ PresentIds(r) = {}) => NoMatchAnswer(r)

\* C2, amended: the same, for requests whose existence query the store did
\* not fail.
C2_AbsentNoMatchUnlessFault ==
    \A r \in RequestIds :
        (Done(r) /\ ValidRequest(r) /\ PresentIds(r) = {} /\ ~StoreFaulted(r))
            => NoMatchAnswer(r)

\* a request that names one absent identifier twice, in two forms, was
\* answered while the table held other rows
C2_Witness ==
    \E r \in RequestIds :
        /\ Done(r) /\ ValidRequest(r) /\ ~StoreFaulted(r)
        /\ PresentIds(r) = {}
        /\ Len(request[r].connect_ids.v) = 2
        /\ Cardinality(Wanted(r)) = 1
        /\ seen[r] # {}

\* C3: a request with a supported protocol and connect_ids equal to [] is
\* answered 400, and no statement is sent to the store for it.
C3_EmptyListRejected ==
    \A r \in RequestIds :
        (Done(r) /\ ValidRequest(r) /\ request[r].connect_ids.v = <<>>) =>
            /\ Status(r) = 400
            /\ issued[r] = <<>>

\* protocol of a parsed body: absent when the body is no JSON object
ProtocolOf(b) == IF b.t = "object" THEN b.protocol ELSE None

\* connect_ids of a parsed body: absent when the body is no JSON object
ConnectIdsOf(b) == IF b.t = "object" THEN b.connect_ids ELSE None

\* the checks of the validation sequence, in order, each with the error it
\* answers with
ValidationChecks(b, reg) ==
    << [fails |-> b.t = "unparseable",
        error |-> "Invalid JSON format"],
       [fails |-> ProtocolOf(b).t # "str",
        error |-> "Missing or invalid parameter: protocol (str)"],
       [fails |-> ProtocolOf(b).t = "str" /\ ~InRegistry(reg, ProtocolOf(b).v),
        error |-> IF ProtocolOf(b).t = "str"
                  THEN "'" \o ProtocolOf(b).v \o
                       "' is not a supported protocol. Allowed: " \o KeysRepr(reg)
                  ELSE ""],
       [fails |-> ConnectIdsOf(b).t # "list",
        error |-> "connect_ids must be a list of strings"] >>

\* the request fails one of the four checks
FailsValidation(b, reg) ==
    \E i \in 1..4 : ValidationChecks(b, reg)[i].fails

\* the error of the first check the request fails
FirstFailure(b, reg) ==
    LET checks == ValidationChecks(b, reg)
        first == CHOOSE i \in 1..4 :
                     checks[i].fails /\ \A j \in 1..(i - 1) : ~checks[j].fails
    IN  checks[first].error

\* C4: a request that fails a validation check is answered 400 with the
\* error of the first check it fails, in the order body, protocol is a
\* string, protocol is registered, connect_ids is a list; no statement is
\* sent to the store.
C4_FirstFailingCheckAnswers ==
    \A r \in RequestIds :
        (Done(r) /\ FailsValidation(request[r], registry)) =>
            /\ Status(r) = 400
            /\ Body(r) = [error |-> FirstFailure(request[r], registry)]
            /\ issued[r] = <<>>

\* the case of C5: b is invoked with the ids and table of a, neither meets
\* a store fault, and b looks at the table as a left it
InvokedAgain(a, b) ==
    /\ a # b
    /\ Done(a) /\ Done(b)
    /\ issued[a] # <<>> /\ issued[b] # <<>>
    /\ ~StoreFaulted(a) /\ ~StoreFaulted(b)
    /\ issued[a][1].table = issued[b][1].table
    /\ issued[a][1].param = issued[b][1].param
    /\ seen[b] = post[a]

\* the identifiers a response reports as deleted
DeletedIds(r) ==
    IF "deleted_ids" \in DOMAIN Body(r) THEN Body(r).deleted_ids ELSE {}

\* C5: when delete_row runs a second time with the same ids on the table
\* the first run left, with no store fault, the second run reports no
\* deleted id, issues no delete statement, lists in not_found every id the
\* first run deleted, and leaves the table as it found it.
C5_SecondRunDeletesNothing ==
    \A a, b \in RequestIds :
        InvokedAgain(a, b) =>
            /\ "deleted_ids" \notin DOMAIN Body(b)
            /\ Statements(b, "delete") = {}
            /\ DeletedIds(a) \subseteq Body(b).not_found
            /\ post[b] = seen[b]

\* a second run after a first run that deleted rows
C5_Witness ==
    \E a, b \in RequestIds :
        /\ InvokedAgain(a, b)
        /\ DeletedIds(a) # {}
        /\ removed[a] # {}

\* two connect_ids lists whose elements stand for the same identifiers,
\* position by position
SameNormalForm(l1, l2) ==
    /\ Len(l1) = Len(l2)
    /\ \A i \in 1..Len(l1) : IdOf(l1[i]) = IdOf(l2[i])

\* the case of C7: two valid requests whose lists have the same normal form
NormalizeAlike(a, b) ==
    /\ a # b
    /\ Done(a) /\ Done(b)
    /\ ValidRequest(a) /\ ValidRequest(b)
    /\ SameNormalForm(request[a].connect_ids.v, request[b].connect_ids.v)

\* C7: two requests whose connect_ids have the same normal form bind the
\* same array to the existence query; when they look at the same table
\* state and meet no store fault, they get the same response (deleted_ids,
\* not_found) and leave the same table.
C7_NormalizedAlikeTreatedAlike ==
    \A a, b \in RequestIds :
        NormalizeAlike(a, b) =>
            /\ issued[a][1].param = issued[b][1].param
            /\ (seen[a] = seen[b] /\ ~StoreFaulted(a) /\ ~StoreFaulted(b)) =>
                   /\ response[a] = response[b]
                   /\ post[a] = post[b]

\* two requests with different lists of the same normal form, both of which
\* deleted rows of the same table state
C7_Witness ==
    \E a, b \in RequestIds :
        /\ NormalizeAlike(a, b)
        /\ request[a] # request[b]
        /\ seen[a] = seen[b]
        /\ removed[a] # {} /\ removed[b] # {}
        /\ DeletedIds(a) # {} /\ DeletedIds(b) # {}

\* the request names a registered protocol whose operation kind has no
\* implementation
Unimplemented(r) ==
    /\ ValidRequest(r)
    /\ RegistryGet(registry, request[r].protocol.v).function # "delete_row"

\* a status of the HTTP surface and a JSON object of one of its shapes
WellFormedResponse(r) ==
    /\ Status(r) \in {200, 400, 500}
    /\ DOMAIN Body(r) \in {{"error"}, {"message", "not_found"},
                           {"message", "deleted_ids", "not_found"}}

\* the body parsed to a JSON value that is no object: request_json.get
\* raises inside the handler
RaisesInHandler(b) == b.t \notin {"unparseable", "object"}

C8_DeletedIdsAreOwnDeletes ==
    /\ \A r \in RequestIds :
          Done(r) => DeletedIds(r) \subseteq IdsIn(removed[r])
    /\ \A a, b \in RequestIds :
          (a # b /\ Done(a) /\ Done(b)) => DeletedIds(a) \cap DeletedIds(b) = {}

\* C9: a request sends at most one existence query and at most one delete
\* query; the delete follows an existence query that completed with a
\* match; the "Deleted" response follows a completed delete; a statement
\* the store failed is the request's last.
C9_QuerySequence ==
    \A r \in RequestIds :
        /\ Len(issued[r]) <= 2
        /\ Statements(r, "select") \subseteq {1}
        /\ Statements(r, "delete") \subseteq {2}
        /\ pc[r] \in {"idle", "check"} => issued[r] = <<>>
        /\ pc[r] = "delete" => Len(issued[r]) = 1
        /\ Len(issued[r]) = 2 =>
              /\ ~issued[r][1].raised
              /\ IdsIn(seen[r]) \cap SetOf(issued[r][1].param) # {}
        /\ (Done(r) /\ "deleted_ids" \in DOMAIN Body(r)) =>
              /\ Len(issued[r]) = 2
              /\ ~issued[r][2].raised
        /\ \A i \in 1..Len(issued[r]) :
              issued[r][i].raised => (i = Len(issued[r]) /\ Done(r))

\* a request whose delete query the store failed, next to one whose
\* existence query found nothing
C9_Witness ==
    \E a, b \in RequestIds :
        /\ Done(a) /\ Len(issued[a]) = 2 /\ issued[a][2].raised
        /\ Done(b) /\ Len(issued[b]) = 1 /\ ~issued[b][1].raised

\* the table the registry resolves the request's protocol to
ResolvedTable(r) ==
    LET config == RegistryGet(registry, request[r].protocol.v)
    IN  TableOf(config.dataset, config.table)

\* a step removes only rows of the table of a validated request that
\* wanted the row's identifier, and changes the rows in no other way
FrameStep ==
    /\ \A t \in Tables :
          /\ store'[t] \subseteq store[t]
          /\ \A row \in store[t] \ store'[t] :
                \E r \in RequestIds :
                    /\ ValidRequest(r)
                    /\ ~Unimplemented(r)
                    /\ ResolvedTable(r) = t
                    /\ Trimmed(row.cid) \in Wanted(r)
                    /\ row \in removed'[r]
    /\ \A r \in RequestIds :
          (pc'[r] = "done" /\ issued'[r] = <<>>) => removed'[r] = {}

\* C10: the only rows ever removed are rows of the table the registry
\* resolves to whose trimmed Connect_ID a validated request asked for;
\* every other row stays, and a request that is rejected or resolves to an
\* unimplemented operation removes nothing.
C10_FrameOfDeletion == [][FrameStep]_vars

\* a delete removed a row while a row no request asked for stayed in the
\* table, and another request was turned away without a statement
C10_Witness ==
    \E a, b \in RequestIds :
        /\ removed[a] # {}
        /\ Done(b) /\ issued[b] = <<>> /\ Status(b) \in {400, 500}
        /\ \E row \in store[TargetTable] :
              \A q \in RequestIds :
                  ValidRequest(q) => Trimmed(row.cid) \notin Wanted(q)

====
